---- MODULE Spec2Model ----
(***************************************************************************)
(* Model of klippy/extras/display/uc1701.py: the DisplayBase framebuffer,  *)
(* its bit transposition (_swizzle_bits), the drawing operations and the   *)
(* differential flush.                                                     *)
(*                                                                         *)
(* Python sequences are 0-based; TLA+ sequences are 1-based.  A python     *)
(* index i of a bytearray is index i+1 of the sequence modelling it.       *)
(***************************************************************************)
EXTENDS Integers, Sequences, FiniteSets, TLC

VARIABLES
    columns,    \* self.columns
    x_offset,   \* self.x_offset
    vram,       \* self.vram: page index 0..7 -> sequence of bytes
    shadow,     \* old_data of self.all_framebuffers: page index -> bytes
    icons,      \* self.icons: set of registered names with their (top, bot)
    chip,       \* the controller's display memory, page index -> bytes
    sent,       \* the calls made to self.send by the last flush, in order
    lastOp,     \* the last call made on the display (kind, arguments, result)
    prevOp,     \* the call before it
    prevVram,   \* vram before the last call
    prev2Vram,  \* vram before the call before the last
    prevShadow, \* shadow before the last call
    prevChip,   \* chip memory before the last call
    nops,       \* number of calls made so far
    nflush,     \* number of flush calls made so far
    swIn,       \* input of a stand-alone _swizzle_bits evaluation
    swOut       \* its result, <<>> until evaluated

vars == <<columns, x_offset, vram, shadow, icons, chip, sent, lastOp, prevOp,
          prevVram, prev2Vram, prevShadow, prevChip, nops, nflush, swIn, swOut>>

----------------------------------------------------------------------------
(* Program constants *)

NumPages == 8         \* range(8) in __init__
GridCols == 16        \* the 16 of write_text / write_graphics / get_dimensions
GridRows == 4         \* the 4 of write_graphics / get_dimensions
IconMaxX == 15        \* x < 15 in write_glyph
MergeGap == 5         \* pos + 5 >= nextpos
MergeCap == 16        \* nextcount < 16
Tilde == 126          \* b'~'
DefaultColumns == 128 \* columns=128

Pages == 0 .. (NumPages - 1)

----------------------------------------------------------------------------
(* Bounds of the model *)

MaxOps == 2          \* calls made on one display in a behaviour
MaxFaultRun == 1     \* a sender fault hits one of the first MaxFaultRun runs of a page
MaxSwRows == 2       \* non-zero rows of a stand-alone _swizzle_bits input
MaxBlockLen == 16    \* longest block of consecutive differing bytes drawn in InitDiff
MaxGapD == 10        \* largest distance between the two marks of a pair in InitDiff
MaxGapB == 6         \* largest gap before and after the block of marks in InitDiff

----------------------------------------------------------------------------
(* Byte arithmetic.  Python's &, |, ^ on values 0..255. *)

RECURSIVE BitAnd(_, _)
BitAnd(a, b) ==
    IF a = 0 \/ b = 0 THEN 0
    ELSE (IF a % 2 = 1 /\ b % 2 = 1 THEN 1 ELSE 0) + 2 * BitAnd(a \div 2, b \div 2)

RECURSIVE BitOr(_, _)
BitOr(a, b) ==
    IF a = 0 THEN b
    ELSE IF b = 0 THEN a
    ELSE (IF a % 2 = 1 \/ b % 2 = 1 THEN 1 ELSE 0) + 2 * BitOr(a \div 2, b \div 2)

RECURSIVE BitXor(_, _)
BitXor(a, b) ==
    IF a = 0 THEN b
    ELSE IF b = 0 THEN a
    ELSE (IF a % 2 # b % 2 THEN 1 ELSE 0) + 2 * BitXor(a \div 2, b \div 2)

Pow2(n) == 2 ^ n

\* bit n (0 = least significant) of byte b
Bit(b, n) == (b \div Pow2(n)) % 2

\* steps of a loop evaluated in one recursion (evaluation depth only)
LoopChunk == 16

\* a function as an explicit table of its values: the same function, evaluated
\* once instead of at every application
Eager(f) == f @@ <<>>

Min(a, b) == IF a < b THEN a ELSE b
Max(a, b) == IF a > b THEN a ELSE b

----------------------------------------------------------------------------
(* _swizzle_bits.  Python integers are unbounded; the 64-bit quantities of  *)
(* the code are kept as little-endian sequences of byte limbs (limb k holds *)
(* bits 8k .. 8k+7), so that no intermediate value leaves TLC's integers.   *)

Limbs == 0 .. 7

\* 0x8040201008040201, limb k = 2^k
SpreadConst == Eager([k \in Limbs |-> Pow2(k)])

\* 0x8080808080808080
SpacedMask == Eager([k \in Limbs |-> 128])

\* carry into limb k of b * m (schoolbook multiplication by a one-limb factor)
RECURSIVE MulCarry(_, _, _)
MulCarry(b, m, k) ==
    IF k = 0 THEN 0 ELSE (b * m[k - 1] + MulCarry(b, m, k - 1)) \div 256

\* the low 64 bits of b * m
MulWord(b, m) == Eager([k \in Limbs |-> (b * m[k] + MulCarry(b, m, k)) % 256])

AndWord(v, w) == Eager([k \in Limbs |-> BitAnd(v[k], w[k])])
OrWord(v, w) == Eager([k \in Limbs |-> BitOr(v[k], w[k])])

\* w >> s for 0 <= s <= 7
ShrWord(w, s) ==
    Eager([k \in Limbs |->
        (w[k] \div Pow2(s)) + (IF k < 7 THEN (w[k + 1] % Pow2(s)) * Pow2(8 - s) ELSE 0)])

ZeroWord == Eager([k \in Limbs |-> 0])

\* spaced = (data[row] * 0x8040201008040201) & 0x8080808080808080
Spaced(byte) == AndWord(MulWord(byte, SpreadConst), SpacedMask)

\* the shift applied to row `row`
SwizzleShiftBug(row) == row
SwizzleShift(row) == 7 - row

\* top (half = 0) or bot (half = 1) after rows 0 .. row of the loop
RECURSIVE SwizzleAcc(_, _, _)
SwizzleAcc(data, half, row) ==
    IF row < 0 THEN ZeroWord
    ELSE OrWord(SwizzleAcc(data, half, row - 1),
                ShrWord(Spaced(data[row + 8 * half + 1]), SwizzleShift(row)))

\* bits_top / bits_bot: [(w >> s) & 0xff for s in range(0, 64, 8)]
WordBytes(w) == <<w[0], w[1], w[2], w[3], w[4], w[5], w[6], w[7]>>

\* returns <<bits_top, bits_bot>>
swizzle_bits(data) ==
    <<WordBytes(SwizzleAcc(data, 0, 7)), WordBytes(SwizzleAcc(data, 1, 7))>>

----------------------------------------------------------------------------
(* Glyph sources *)

\* font8x14.VGA_FONT: 16 rows of 8 pixels per character code (bit 7 = leftmost).
\* Only the character codes the model draws are tabulated.
VGA_FONT(c) ==
    CASE c = 65  -> <<0, 0, 16, 56, 108, 198, 198, 254, 198, 198, 198, 198, 0, 0, 0, 0>>
      [] c = 66  -> <<0, 0, 252, 102, 102, 102, 124, 102, 102, 102, 102, 252, 0, 0, 0, 0>>
      [] c = 26  -> <<0, 0, 0, 0, 0, 24, 12, 254, 12, 24, 0, 0, 0, 0, 0, 0>>
      [] c = 248 -> <<0, 56, 108, 108, 56, 0, 0, 0, 0, 0, 0, 0, 0, 0, 0, 0>>
      [] OTHER   -> <<0, 0, 0, 0, 0, 0, 0, 0, 0, 0, 0, 0, 0, 0, 0, 0>>

\* self.font, indexed by character code
font == Eager([c \in 0 .. 255 |-> swizzle_bits(VGA_FONT(c))])

\* TextGlyphs = { 'right_arrow': b'\x1a', 'degrees': b'\xf8' }
TextGlyphsBug == [right_arrow |-> <<26>>, degrees |-> <<248>>, nosuch |-> <<65>>]
TextGlyphs == [right_arrow |-> <<26>>, degrees |-> <<248>>]

----------------------------------------------------------------------------
(* Python sequence helpers *)

\* data[:n] for n >= 0
Take(s, n) == SubSeq(s, 1, Min(n, Len(s)))

\* page[start:stop] = val for 0 <= start <= stop, on a bytearray
SliceAssign(page, start, stop, val) ==
    LET lo == Min(start, Len(page))
        hi == Max(lo, Min(stop, Len(page)))
    IN  SubSeq(page, 1, lo) \o val \o SubSeq(page, hi + 1, Len(page))

\* a function with domain 1 .. n as a sequence value
AsSeq(f, n) == SubSeq(f, 1, n)

Fill(n, b) == AsSeq([i \in 1 .. n |-> b], n)

----------------------------------------------------------------------------
(* Drawing operations, as functions of the pages *)

\* the clipping at the head of write_text
ClipTextBug(x, data) == data
ClipText(x, data) ==
    IF x + Len(data) > GridCols THEN Take(data, GridCols - Min(x, GridCols)) ELSE data

\* the loop of write_text over the characters k .. Len(data) of data
RECURSIVE TextLoop(_, _, _, _, _)
TextLoop(v, y, pix_x, data, k) ==
    IF k > Len(data) THEN v
    ELSE LET bits == font[data[k]]
             v1 == [v EXCEPT ![y * 2] = SliceAssign(@, pix_x, pix_x + 8, bits[1]),
                             ![y * 2 + 1] = SliceAssign(@, pix_x, pix_x + 8, bits[2])]
         IN  TextLoop(v1, y, pix_x + 8, data, k + 1)

\* the pages after write_text(x, y, data)
write_text(v, xo, x, y, data) == TextLoop(v, y, x * 8 + xo, ClipText(x, data), 1)

\* page[pix_x + i] ^= bits[i]
XorByteBug(old, bits) == BitOr(old, bits)
XorByte(old, bits) == BitXor(old, bits)

\* the loop of write_graphics from step i on; raised is set by an IndexError,
\* which leaves the bytes already changed as they are
RECURSIVE GraphicsLoop(_, _, _, _, _)
GraphicsLoop(v, y, pix_x, bits, i) ==
    IF i > 7 THEN [v |-> v, raised |-> FALSE]
    ELSE IF pix_x + i >= Len(v[y * 2]) THEN [v |-> v, raised |-> TRUE]
    ELSE LET v1 == [v EXCEPT ![y * 2][pix_x + i + 1] = XorByte(@, bits[1][i + 1])]
         IN  IF pix_x + i >= Len(v1[y * 2 + 1]) THEN [v |-> v1, raised |-> TRUE]
             ELSE GraphicsLoop(
                     [v1 EXCEPT ![y * 2 + 1][pix_x + i + 1] = XorByte(@, bits[2][i + 1])],
                     y, pix_x, bits, i + 1)

\* the guard of write_graphics: TRUE when the call is ignored
GraphicsIgnoredBug(x, y, data) == x > GridCols \/ y >= GridRows \/ Len(data) # 16
GraphicsIgnored(x, y, data) == x >= GridCols \/ y >= GridRows \/ Len(data) # 16

\* the pages after write_graphics(x, y, data), and whether it raised
write_graphics(v, xo, x, y, data) ==
    IF GraphicsIgnored(x, y, data) THEN [v |-> v, raised |-> FALSE]
    ELSE GraphicsLoop(v, y, x * 8 + xo, swizzle_bits(data), 0)

\* the icon branch of write_glyph is taken
IconDrawnBug(ic, x, name) == name \in DOMAIN ic /\ x <= IconMaxX
IconDrawn(ic, x, name) == name \in DOMAIN ic /\ x < IconMaxX

\* the pages after write_glyph(x, y, glyph_name), and its return value
write_glyph(v, ic, xo, x, y, name) ==
    IF IconDrawn(ic, x, name)
    THEN LET pix_x == x * 8 + xo
         IN  [v |-> [v EXCEPT ![y * 2] = SliceAssign(@, pix_x, pix_x + 16, ic[name][1]),
                              ![y * 2 + 1] = SliceAssign(@, pix_x, pix_x + 16, ic[name][2])],
              ret |-> 2]
    ELSE IF name \in DOMAIN TextGlyphs
    THEN [v |-> write_text(v, xo, x, y, TextGlyphs[name]), ret |-> 1]
    ELSE [v |-> v, ret |-> 0]

\* self.icons after set_glyphs({name: glyph_data}); glyph_data.get('icon16x16')
\* is modelled by the has_icon flag
set_glyphs(ic, name, glyph_data) ==
    IF glyph_data.has_icon
    THEN LET s1 == swizzle_bits(glyph_data.icon[1])
             s2 == swizzle_bits(glyph_data.icon[2])
             entry == <<s1[1] \o s2[1], s1[2] \o s2[2]>>
         IN  Eager([n \in (DOMAIN ic) \cup {name} |-> IF n = name THEN entry ELSE ic[n]])
    ELSE ic

\* the pages after clear()
clearDefault(v, cols) == Eager([p \in DOMAIN v |-> Fill(DefaultColumns, 0)])
clearBug(v, cols) ==
    Eager([p \in DOMAIN v |-> IF p = NumPages - 1 THEN v[p] ELSE Fill(cols, 0)])
clear(v, cols) == Eager([p \in DOMAIN v |-> Fill(cols, 0)])

----------------------------------------------------------------------------
(* flush *)

\* diffs = [[i, 1] for i, (n, o) in enumerate(zip(new_data, old_data)) if n != o]
DiffsBug(new, old) ==
    LET n == Min(Len(new), Len(old))
        idx == SelectSeq([i \in 1 .. n |-> i - 1],
                         LAMBDA i : new[i + 1] # old[i + 1] \/ i = n - 1)
    IN  AsSeq([k \in 1 .. Len(idx) |-> <<idx[k], 1>>], Len(idx))
Diffs(new, old) ==
    LET n == Min(Len(new), Len(old))
        idx == SelectSeq([i \in 1 .. n |-> i - 1], LAMBDA i : new[i + 1] # old[i + 1])
    IN  AsSeq([k \in 1 .. Len(idx) |-> <<idx[k], 1>>], Len(idx))

\* the test that batches diffs[i] with diffs[i+1]
MergeTestNoCap(pos, nextpos, nextcount) == pos + MergeGap >= nextpos
MergeTestNear(pos, nextpos, nextcount) ==
    pos + (MergeGap - 1) >= nextpos /\ nextcount < MergeCap
MergeTestFar(pos, nextpos, nextcount) ==
    pos + (MergeGap + 1) >= nextpos /\ nextcount < MergeCap
MergeTestWide(pos, nextpos, nextcount) ==
    pos + MergeGap >= nextpos /\ nextcount < MergeCap + 1
MergeTest(pos, nextpos, nextcount) == pos + MergeGap >= nextpos /\ nextcount < MergeCap

\* The loop `for i in range(len(diffs)-2, -1, -1)`.  When the loop is at python
\* index i, the list diffs is d[1 .. i+1] (entries the loop has not touched,
\* d being the list the loop started with) followed by `tail` (the entries
\* right of i, batched): diffs[i] is d[i+1] and diffs[i+1] is tail[1].
\* A step either rewrites diffs[i] and deletes diffs[i+1], or leaves both.
\* MergeSteps is the loop body for i = hi, hi-1, ..., lo.
RECURSIVE MergeSteps(_, _, _, _)
MergeSteps(d, tail, hi, lo) ==
    IF hi < lo THEN tail
    ELSE LET pos == d[hi + 1][1]
             nextpos == tail[1][1]
             nextcount == tail[1][2]
         IN  IF MergeTest(pos, nextpos, nextcount)
             THEN MergeSteps(d, <<<<pos, nextcount + (nextpos - pos)>>>> \o Tail(tail),
                             hi - 1, lo)
             ELSE MergeSteps(d, <<d[hi + 1]>> \o tail, hi - 1, lo)

\* the loop from python index i downwards, evaluated LoopChunk steps at a time
\* to keep the evaluation shallow
RECURSIVE MergeLoop(_, _, _)
MergeLoop(d, tail, i) ==
    IF i < 0 \/ Len(tail) = 0 THEN tail
    ELSE MergeLoop(d, MergeSteps(d, tail, i, Max(0, i - (LoopChunk - 1))), i - LoopChunk)

\* diffs after the batching loop
MergedBug(d) ==
    IF Len(d) < 2 THEN d
    ELSE <<d[1]>> \o MergeLoop(Tail(d), <<d[Len(d)]>>, Len(d) - 3)
Merged(d) == IF Len(d) = 0 THEN d ELSE MergeLoop(d, <<d[Len(d)]>>, Len(d) - 2)

\* the runs <<col_pos, count>> flush transmits for one page
PageRuns(new, old) == IF new = old THEN <<>> ELSE Merged(Diffs(new, old))

\* new_data[col_pos:col_pos+count]
PayloadShort(new, col_pos, count) ==
    SubSeq(new, Min(col_pos, Len(new)) + 1, Min(col_pos + count - 1, Len(new)))
Payload(new, col_pos, count) ==
    SubSeq(new, Min(col_pos, Len(new)) + 1, Min(col_pos + count, Len(new)))

\* [ra, ca_msb, ca_lsb]
PosCmdBug(page, col_pos) ==
    <<BitOr(176, BitAnd(page, 15)), BitOr(16, BitAnd(col_pos, 15)),
      BitAnd(col_pos \div 16, 15)>>
PosCmd(page, col_pos) ==
    <<BitOr(176, BitAnd(page, 15)), BitOr(16, BitAnd(col_pos \div 16, 15)),
      BitAnd(col_pos, 15)>>

\* the calls to self.send for one page, in order
PageSends(page, new, runs) ==
    AsSeq([k \in 1 .. (2 * Len(runs)) |->
            LET r == runs[(k + 1) \div 2]
            IN  IF k % 2 = 1
                THEN [bytes |-> PosCmd(page, r[1]), is_data |-> FALSE]
                ELSE [bytes |-> Payload(new, r[1], r[2]), is_data |-> TRUE]],
          2 * Len(runs))

\* the runs of every page, computed from the pages as they are when flush starts
\* (flush writes old_data of a page only after that page's sends)
FlushPlan(v, sh) == Eager([p \in Pages |-> PageRuns(v[p], sh[p])])

\* the sends of pages 0 .. p
RECURSIVE SendsUpTo(_, _, _)
SendsUpTo(v, plan, p) ==
    IF p < 0 THEN <<>> ELSE SendsUpTo(v, plan, p - 1) \o PageSends(p, v[p], plan[p])

\* old_data[:] = new_data, reached unless the page was skipped by `continue`
CommitBug(new, old) == old
Commit(new, old) == IF new = old THEN old ELSE new

\* shadow after a flush that raised in page fp (fp = NumPages: no fault)
ShadowAfterEarly(v, sh, fp) ==
    Eager([p \in Pages |-> IF p <= fp THEN Commit(v[p], sh[p]) ELSE sh[p]])
ShadowAfter(v, sh, fp) ==
    Eager([p \in Pages |-> IF p < fp THEN Commit(v[p], sh[p]) ELSE sh[p]])

----------------------------------------------------------------------------
(* The display controller: 8 pages of memory, a page and a column register  *)
(* set by the addressing command, data written at the column register,     *)
(* which increments per byte.                                              *)

\* memory after one data send at (page, col); bytes past the end of the page
\* are dropped
ChipWrite(mem, page, col, bytes) ==
    IF page \notin DOMAIN mem \/ col >= Len(mem[page]) THEN mem
    ELSE LET n == Len(mem[page])
             k == Min(Len(bytes), n - col)
         IN  [mem EXCEPT ![page] =
                 SubSeq(@, 1, col) \o SubSeq(bytes, 1, k) \o SubSeq(@, col + k + 1, n)]

CmdPage(bytes) == BitAnd(bytes[1], 15)
CmdCol(bytes) == BitAnd(bytes[2], 15) * 16 + bytes[3]

\* the controller after one delivered send
ChipStep(c, send) ==
    IF send.is_data
    THEN [mem |-> ChipWrite(c.mem, c.page, c.col, send.bytes), page |-> c.page,
          col |-> c.col + Len(send.bytes)]
    ELSE [mem |-> c.mem, page |-> CmdPage(send.bytes), col |-> CmdCol(send.bytes)]

\* the controller after the sends s[k .. hi]
RECURSIVE ChipSteps(_, _, _, _)
ChipSteps(c, s, k, hi) ==
    IF k > hi THEN c ELSE ChipSteps(ChipStep(c, s[k]), s, k + 1, hi)

RECURSIVE ChipFrom(_, _, _)
ChipFrom(c, s, k) ==
    IF k > Len(s) \/ c.col < 0 THEN c
    ELSE ChipFrom(ChipSteps(c, s, k, Min(Len(s), k + LoopChunk - 1)), s, k + LoopChunk)

\* memory after the delivered sends s; no page is addressed before the first command
ChipApply(mem, s) == ChipFrom([mem |-> mem, page |-> 0 - 1, col |-> 0], s, 1).mem

----------------------------------------------------------------------------
(* Inputs of the calls *)

\* a 16-row bitmap whose transposed top byte 0 is b'~'
BitmapTilde == <<0, 128, 128, 128, 128, 128, 128, 0, 1, 2, 4, 8, 16, 32, 64, 128>>
BitmapMixed == <<255, 165, 60, 1, 128, 24, 231, 90, 15, 240, 51, 204, 85, 170, 129, 126>>
BitmapShort == <<255, 255, 255>>

TextCalls == {<<0, 0, <<65>>>>, <<15, 0, <<65, 66>>>>, <<17, 1, <<66, 65>>>>}

GraphicsCalls ==
    {<<0, 0, BitmapTilde>>, <<15, 3, BitmapMixed>>, <<16, 0, BitmapMixed>>,
     <<0, 4, BitmapTilde>>, <<1, 1, BitmapShort>>}

GlyphCalls ==
    {<<15, 0, "extruder">>, <<14, 3, "extruder">>, <<15, 1, "right_arrow">>,
     <<0, 2, "degrees">>, <<0, 0, "nosuch">>}

GlyphDicts ==
    {<<"extruder", [has_icon |-> TRUE, icon |-> <<BitmapMixed, BitmapTilde>>]>>,
     <<"right_arrow", [has_icon |-> TRUE, icon |-> <<BitmapTilde, BitmapMixed>>]>>,
     <<"bed", [has_icon |-> FALSE, icon |-> <<>>]>>}

----------------------------------------------------------------------------
(* State machine *)

NoFault == NumPages

NoArgs == [kind |-> "init", x |-> 0, y |-> 0, data |-> <<>>, name |-> "", ret |-> 0,
          raised |-> FALSE, fault |-> NoFault, runs |-> <<>>]

Op(kind, rest) == [rest EXCEPT !.kind = kind]

\* a constructor whose shadow pages start at zero
ConstructedBug(cols, xo) ==
    /\ columns = cols
    /\ x_offset = xo
    /\ vram = Eager([p \in Pages |-> Fill(cols, 0)])
    /\ shadow = Eager([p \in Pages |-> Fill(cols, 0)])
    /\ icons = <<>>
    /\ sent = <<>>
    /\ lastOp = Op("init", NoArgs)
    /\ prevOp = Op("init", NoArgs)
    /\ prevVram = vram
    /\ prev2Vram = vram
    /\ prevShadow = shadow
    /\ prevChip = chip
    /\ nops = 0
    /\ nflush = 0

\* the state DisplayBase.__init__ leaves
Constructed(cols, xo) ==
    /\ columns = cols
    /\ x_offset = xo
    /\ vram = Eager([p \in Pages |-> Fill(cols, 0)])
    /\ shadow = Eager([p \in Pages |-> Fill(cols, Tilde)])
    /\ icons = <<>>
    /\ sent = <<>>
    /\ lastOp = Op("init", NoArgs)
    /\ prevOp = Op("init", NoArgs)
    /\ prevVram = vram
    /\ prev2Vram = vram
    /\ prevShadow = shadow
    /\ prevChip = chip
    /\ nops = 0
    /\ nflush = 0

NoSwizzle ==
    /\ swIn = <<>>
    /\ swOut = <<>>

\* The controller's memory is not set by the constructor; the model starts it
\* in agreement with the shadow pages.
Init ==
    /\ chip = Eager([p \in Pages |-> Fill(DefaultColumns, Tilde)])
    /\ Constructed(DefaultColumns, 0)
    /\ NoSwizzle

\* what every call records
Record(op) ==
    /\ nops < MaxOps
    /\ nops' = nops + 1
    /\ nflush' = IF op.kind = "flush" THEN nflush + 1 ELSE nflush
    /\ lastOp' = op
    /\ prevOp' = lastOp
    /\ prevVram' = vram
    /\ prev2Vram' = prevVram
    /\ prevShadow' = shadow
    /\ prevChip' = chip
    /\ UNCHANGED <<columns, x_offset, swIn, swOut>>

WriteText ==
    \E c \in TextCalls :
        /\ Record(Op("write_text", [NoArgs EXCEPT !.x = c[1], !.y = c[2], !.data = c[3]]))
        /\ vram' = write_text(vram, x_offset, c[1], c[2], c[3])
        /\ sent' = <<>>
        /\ UNCHANGED <<shadow, icons, chip>>

WriteGraphics ==
    /\ nops < MaxOps
    /\ \E c \in GraphicsCalls :
        \E res \in {write_graphics(vram, x_offset, c[1], c[2], c[3])} :
            /\ Record(Op("write_graphics", [NoArgs EXCEPT !.x = c[1], !.y = c[2],
                                               !.data = c[3], !.raised = res.raised]))
            /\ vram' = res.v
            /\ sent' = <<>>
            /\ UNCHANGED <<shadow, icons, chip>>

WriteGlyph ==
    /\ nops < MaxOps
    /\ \E c \in GlyphCalls :
        \E res \in {write_glyph(vram, icons, x_offset, c[1], c[2], c[3])} :
            /\ Record(Op("write_glyph", [NoArgs EXCEPT !.x = c[1], !.y = c[2],
                                            !.name = c[3], !.ret = res.ret]))
            /\ vram' = res.v
            /\ sent' = <<>>
            /\ UNCHANGED <<shadow, icons, chip>>

SetGlyphs ==
    \E g \in GlyphDicts :
        /\ Record(Op("set_glyphs", [NoArgs EXCEPT !.name = g[1]]))
        /\ icons' = set_glyphs(icons, g[1], g[2])
        /\ sent' = <<>>
        /\ UNCHANGED <<vram, shadow, chip>>

Clear ==
    /\ Record(Op("clear", NoArgs))
    /\ vram' = clear(vram, columns)
    /\ sent' = <<>>
    /\ UNCHANGED <<shadow, icons, chip>>

\* flush with every send succeeding
FlushOk ==
    /\ nops < MaxOps
    /\ \E plan \in {FlushPlan(vram, shadow)} :
         \E sends \in {SendsUpTo(vram, plan, NumPages - 1)} :
            /\ Record(Op("flush", NoArgs))
            /\ sent' = sends
            /\ shadow' = ShadowAfter(vram, shadow, NumPages)
            /\ chip' = ChipApply(chip, sends)
            /\ UNCHANGED <<vram, icons>>

\* the runs of page p with their payloads, <<col_pos, count, bytes>>
RunsWithPayload(new, runs) ==
    AsSeq([k \in 1 .. Len(runs) |->
            <<runs[k][1], runs[k][2], Payload(new, runs[k][1], runs[k][2])>>], Len(runs))

\* flush in which self.send raises: in page fp, at the command (stage 1) or the
\* data (stage 2) of run r, one of the first MaxFaultRun runs of the page or its
\* last run.  The exception leaves flush at once; the sends made before it were
\* delivered, the raising one was not.
FlushFault ==
    /\ nops < MaxOps
    /\ \E plan \in {FlushPlan(vram, shadow)} :
         \E fp \in Pages :
           \E r \in (1 .. Min(MaxFaultRun, Len(plan[fp]))) \cup ({Len(plan[fp])} \ {0}) :
             \E stage \in {1, 2} :
               \E sends \in {SendsUpTo(vram, plan, fp - 1) \o
                               SubSeq(PageSends(fp, vram[fp], plan[fp]), 1,
                                      2 * (r - 1) + stage)} :
                  /\ Record(Op("flush", [NoArgs EXCEPT !.raised = TRUE, !.fault = fp,
                                           !.runs = RunsWithPayload(vram[fp], plan[fp])]))
                  /\ sent' = sends
                  /\ shadow' = ShadowAfter(vram, shadow, fp)
                  /\ chip' = ChipApply(chip, SubSeq(sends, 1, Len(sends) - 1))
                  /\ UNCHANGED <<vram, icons>>

Next ==
    \/ WriteText
    \/ WriteGraphics
    \/ WriteGlyph
    \/ SetGlyphs
    \/ Clear
    \/ FlushOk
    \/ FlushFault

Spec == Init /\ [][Next]_vars

----------------------------------------------------------------------------
(* The shipped geometries: DisplayBase's defaults, and the SH1106 with 132    *)
(* columns and x_offset = config.getint('x_offset', 0, minval=0, maxval=3).   *)

SH1106Columns == 132
MaxXOffset == 3

Geometries == {<<DefaultColumns, 0>>} \cup {<<SH1106Columns, xo>> : xo \in 0 .. MaxXOffset}

InitGeom ==
    \E g \in Geometries :
        /\ chip = Eager([p \in Pages |-> Fill(g[1], Tilde)])
        /\ Constructed(g[1], g[2])
        /\ NoSwizzle

SpecGeom == InitGeom /\ [][Next]_vars

----------------------------------------------------------------------------
(* _swizzle_bits on its own: the input is drawn from the bitmaps with at most *)
(* MaxSwRows non-zero rows, then transposed.                                  *)

ZeroBitmap == Fill(16, 0)

RECURSIVE SwInputs(_)
SwInputs(n) ==
    IF n = 0 THEN {ZeroBitmap}
    ELSE LET less == SwInputs(n - 1)
         IN  less \cup {[b EXCEPT ![r] = v] : b \in less, r \in 1 .. 16, v \in {1, 128, 165}}

InitSwizzle ==
    /\ chip = Eager([p \in Pages |-> Fill(DefaultColumns, Tilde)])
    /\ Constructed(DefaultColumns, 0)
    /\ swIn \in SwInputs(MaxSwRows)
    /\ swOut = <<>>

Swizzle ==
    /\ swOut = <<>>
    /\ swOut' = swizzle_bits(swIn)
    /\ UNCHANGED <<columns, x_offset, vram, shadow, icons, chip, sent, lastOp, prevOp,
                   prevVram, prev2Vram, prevShadow, prevChip, nops, nflush, swIn>>

NextSwizzle == Swizzle

SpecSwizzle == InitSwizzle /\ [][NextSwizzle]_vars

----------------------------------------------------------------------------
(* flush on its own: the display is in sync (pages, shadow and controller all *)
(* zero) except for one page, on which some bytes have been drawn.            *)

\* the byte drawn at python index k
MarkByte(k) == (k % 255) + 1

\* two marks at most MaxGapD apart, or with the second at the end of the page
MarksPair == {{a, Min(a + d, DefaultColumns - 1)} : a \in 0 .. (DefaultColumns - 1),
                                                    d \in 0 .. MaxGapD}
                \cup {{a, DefaultColumns - 1} : a \in 0 .. (DefaultColumns - 1)}

\* a mark, a block of marks after a gap, and possibly a mark after the block
MarksBlock ==
    {({a} \cup ((a + g) .. (a + g + len - 1))
          \cup (IF g2 = 0 THEN {} ELSE {a + g + len - 1 + g2}))
        \cap (0 .. (DefaultColumns - 1)) :
        a \in {0, 61, 100}, g \in 1 .. MaxGapB, len \in 1 .. MaxBlockLen, g2 \in 0 .. MaxGapB}

\* the page the marks are drawn on
MarkedPage(m) == (CHOOSE k \in m : \A j \in m : k <= j) % NumPages

InitDiff ==
    /\ \E m \in MarksPair \cup MarksBlock :
          vram = [Eager([p \in Pages |-> Fill(DefaultColumns, 0)]) EXCEPT ![MarkedPage(m)] =
                    AsSeq([i \in 1 .. DefaultColumns |->
                            IF (i - 1) \in m THEN MarkByte(i - 1) ELSE 0], DefaultColumns)]
    /\ columns = DefaultColumns
    /\ x_offset = 0
    /\ shadow = Eager([p \in Pages |-> Fill(DefaultColumns, 0)])
    /\ chip = shadow
    /\ icons = <<>>
    /\ sent = <<>>
    /\ lastOp = Op("init", NoArgs)
    /\ prevOp = Op("init", NoArgs)
    /\ prevVram = vram
    /\ prev2Vram = vram
    /\ prevShadow = shadow
    /\ prevChip = chip
    /\ nops = 0
    /\ nflush = 0
    /\ NoSwizzle

NextDiff ==
    \/ FlushOk
    \/ FlushFault

SpecDiff == InitDiff /\ [][NextDiff]_vars

----------------------------------------------------------------------------
(* What a flush transmitted, read back from the calls it made to the sender *)

FlushDone == lastOp.kind = "flush" /\ ~lastOp.raised
FlushRaised == lastOp.kind = "flush" /\ lastOp.raised

\* the calls that returned: all of them, or all but the last when flush raised
Delivered == IF FlushRaised THEN SubSeq(sent, 1, Len(sent) - 1) ELSE sent

\* the delivered data sends that follow an addressing command for page p, as
\* <<start column, length, bytes>>, in the order sent
SentRuns(p) ==
    LET dl == Delivered
        idx == SelectSeq([k \in 1 .. Len(dl) |-> k],
                         LAMBDA k : /\ dl[k].is_data
                                    /\ k > 1
                                    /\ ~dl[k - 1].is_data
                                    /\ Len(dl[k - 1].bytes) = 3
                                    /\ BitAnd(dl[k - 1].bytes[1], 15) = p)
    IN  AsSeq([j \in 1 .. Len(idx) |->
                <<BitAnd(dl[idx[j] - 1].bytes[2], 15) * 16 + dl[idx[j] - 1].bytes[3],
                  Len(dl[idx[j]].bytes), dl[idx[j]].bytes>>], Len(idx))

\* the same, as <<start column, length>>
SentSpans(p) ==
    LET r == SentRuns(p) IN AsSeq([j \in 1 .. Len(r) |-> <<r[j][1], r[j][2]>>], Len(r))

\* the python indexes at which page p differed from its shadow before the last call
DiffCols(p) ==
    {k \in 0 .. (Len(prevVram[p]) - 1) : prevVram[p][k + 1] # prevShadow[p][k + 1]}

IsPrefix(a, b) == Len(a) <= Len(b) /\ a = SubSeq(b, 1, Len(a))

----------------------------------------------------------------------------
(* Claims *)

\* C8 (as stated): bit (7-row) of top[i] is set exactly when bit i, counted from
\* the most significant bit, of input row `row` is set, and likewise bottom[i]
\* for input row row+8.
Orig_C8 ==
    swOut # <<>> =>
        \A row \in 0 .. 7 : \A i \in 0 .. 7 :
            /\ Bit(swOut[1][i + 1], 7 - row) = Bit(swIn[row + 1], 7 - i)
            /\ Bit(swOut[2][i + 1], 7 - row) = Bit(swIn[row + 9], 7 - i)

\* C8 (amended): bit `row` of top[i] is set exactly when bit i, counted from the
\* most significant bit, of input row `row` is set; bit `row` of bottom[i]
\* exactly when that bit of input row row+8 is set; top and bottom have 8 bytes
\* each and no other bit of them is set.
Thm_C8 ==
    swOut # <<>> =>
        /\ Len(swOut[1]) = 8 /\ Len(swOut[2]) = 8
        /\ \A i \in 0 .. 7 : swOut[1][i + 1] \in 0 .. 255 /\ swOut[2][i + 1] \in 0 .. 255
        /\ \A row \in 0 .. 7 : \A i \in 0 .. 7 :
            /\ Bit(swOut[1][i + 1], row) = Bit(swIn[row + 1], 7 - i)
            /\ Bit(swOut[2][i + 1], row) = Bit(swIn[row + 9], 7 - i)

\* a transposed bitmap with pixels in both halves, off the diagonal
Wit_C8 ==
    /\ swOut # <<>>
    /\ swIn[1] = 128 /\ swIn[16] = 1
    /\ swOut[1][1] = 1 /\ swOut[2][8] = 128

\* C1: after a flush that returned without a sender fault the shadow of every
\* page equals the current page, and a flush made right after such a flush made
\* no call to the sender.
Thm_C1 ==
    /\ FlushDone => \A p \in Pages : shadow[p] = vram[p]
    /\ (FlushDone /\ prevOp.kind = "flush" /\ ~prevOp.raised) => sent = <<>>

\* a second flush right after a first one that transmitted the whole display
Wit_C1 ==
    /\ FlushDone /\ prevOp.kind = "flush" /\ ~prevOp.raised
    /\ sent = <<>>
    /\ \A p \in Pages : shadow[p] = vram[p] /\ prevShadow[p] = vram[p]

\* C2: if the controller memory of every page equalled the shadow of that page
\* before a flush, then after that flush, if no send raised, the controller
\* memory of every page equals the current page.
Thm_C2 ==
    (FlushDone /\ \A p \in Pages : prevChip[p] = prevShadow[p])
        => \A p \in Pages : chip[p] = vram[p]

\* a flush that brought the controller in sync by one batched run that spans
\* unchanged bytes
Wit_C2 ==
    /\ FlushDone /\ \A p \in Pages : prevChip[p] = prevShadow[p]
    /\ DiffCols(2) = {10, 14}
    /\ SentSpans(2) = <<<<10, 5>>>>
    /\ chip[2] = vram[2] /\ chip[2] # prevChip[2]

\* C3: when a send raises in page p, the shadow of p is as before the flush,
\* the shadows of the pages before p are committed, those of the pages after p
\* are untouched and the calls made are a prefix of those of an undisturbed
\* flush, ending with the raising one (no retry); the flush that follows, with
\* no write in between, sends for page p the runs the failed flush had computed
\* (all of them unless it raises in page p again, and then the first of them).
Thm_C3 ==
    /\ FlushRaised =>
         /\ lastOp.fault \in Pages
         /\ shadow[lastOp.fault] = prevShadow[lastOp.fault]
         /\ shadow[lastOp.fault] # vram[lastOp.fault]
         /\ \A q \in Pages : q < lastOp.fault => shadow[q] = vram[q]
         /\ \A q \in Pages : q > lastOp.fault => shadow[q] = prevShadow[q]
         /\ vram = prevVram
         /\ sent # <<>>
         /\ BitAnd(sent[Len(sent) - (IF sent[Len(sent)].is_data THEN 1 ELSE 0)].bytes[1], 15)
               = lastOp.fault
         /\ IsPrefix(SentRuns(lastOp.fault), lastOp.runs)
         /\ Len(SentRuns(lastOp.fault)) < Len(lastOp.runs)
    /\ (lastOp.kind = "flush" /\ prevOp.kind = "flush" /\ prevOp.raised) =>
         /\ lastOp.fault >= prevOp.fault
         /\ lastOp.fault > prevOp.fault => SentRuns(prevOp.fault) = prevOp.runs
         /\ lastOp.fault = prevOp.fault =>
               lastOp.runs = prevOp.runs /\ IsPrefix(SentRuns(prevOp.fault), prevOp.runs)

\* a flush that raised in page 3, followed by a flush that sent the runs of page 3
Wit_C3 ==
    /\ FlushDone /\ prevOp.kind = "flush" /\ prevOp.raised /\ prevOp.fault = 3
    /\ prevOp.runs # <<>>
    /\ SentRuns(3) = prevOp.runs
    /\ SentRuns(2) = <<>>
    /\ prevShadow[2] = vram[2] /\ prevShadow[3] # vram[3] /\ shadow[3] = vram[3]

\* C4: when a page differs from its shadow at exactly two offsets a < b, a
\* flush sends for it the single run (a, b-a+1) if b - a <= 5 and the two runs
\* (a, 1) and (b, 1) if b - a > 5.
Thm_C4 ==
    FlushDone =>
        \A p \in Pages :
            \A dc \in {DiffCols(p)} : \A a, b \in dc :
                (a < b /\ dc = {a, b}) =>
                    SentSpans(p) = IF b - a <= 5 THEN <<<<a, b - a + 1>>>>
                                   ELSE <<<<a, 1>>, <<b, 1>>>>

\* offsets 10 and 14 went out as the one run (10, 5)
Wit_C4 ==
    /\ FlushDone
    /\ DiffCols(2) = {10, 14}
    /\ SentSpans(2) = <<<<10, 5>>>>

\* offsets 10 and 20 went out as two runs
Wit_C4_apart ==
    /\ FlushDone
    /\ DiffCols(2) = {10, 20}
    /\ SentSpans(2) = <<<<10, 1>>, <<20, 1>>>>

\* C5: a differing byte k of a page that has no other differing byte within 5
\* positions is sent as the run (k, 1) carrying the current byte; a page that
\* differs from its shadow at k only gets one addressing command and one data
\* send of one byte.
Thm_C5 ==
    FlushDone =>
        \A p \in Pages :
            \A dc \in {DiffCols(p)} : \A runs \in {SentRuns(p)} : \A k \in dc :
                /\ (\A j \in dc : j = k \/ j - k > 5 \/ k - j > 5) =>
                       \E n \in 1 .. Len(runs) : runs[n] = <<k, 1, <<vram[p][k + 1]>>>>
                /\ dc = {k} => runs = <<<<k, 1, <<vram[p][k + 1]>>>>>>
                /\ (dc = {k} /\ \A q \in Pages \ {p} : vram[q] = prevShadow[q]) =>
                       /\ Len(sent) = 2
                       /\ ~sent[1].is_data /\ sent[2].is_data /\ Len(sent[2].bytes) = 1

\* a lone differing byte next to a batched run six positions away
Wit_C5 ==
    /\ FlushDone
    /\ DiffCols(5) = {61, 67, 68, 69}
    /\ SentSpans(5) = <<<<61, 1>>, <<67, 3>>>>

\* C6 (as stated): no data send of a flush carries more than 16 bytes.
Orig_C6 ==
    lastOp.kind = "flush" =>
        \A k \in 1 .. Len(sent) : sent[k].is_data => Len(sent[k].bytes) <= 16

\* C6 (amended): the batching loop refuses a merge only when the run on the right
\* already has 16 bytes or more (nextcount < 16); the merged run may then have
\* up to 15 + 5 = 20 bytes, and no data send of a flush carries more than 20.
Thm_C6 ==
    lastOp.kind = "flush" =>
        \A k \in 1 .. Len(sent) :
            sent[k].is_data => Len(sent[k].bytes) <= (MergeCap - 1) + MergeGap

\* a run of 15 differing bytes took in the differing byte 5 positions before it
Wit_C6 ==
    /\ FlushDone
    /\ DiffCols(5) = {61} \cup (66 .. 80)
    /\ SentSpans(5) = <<<<61, 20>>>>

\* C7: on the first flush after construction every byte of every page is
\* covered by a transmitted run, whatever was drawn before.
Orig_C7 ==
    (FlushDone /\ nflush = 1) =>
        \A p \in Pages :
            \A spans \in {SentSpans(p)} : \A k \in 0 .. (columns - 1) :
                \E n \in 1 .. Len(spans) : spans[n][1] <= k /\ k < spans[n][1] + spans[n][2]

\* C9: two successive write_graphics calls with the same arguments leave every
\* page as it was before the first of them, and raise nothing.
Thm_C9 ==
    (/\ lastOp.kind = "write_graphics" /\ prevOp.kind = "write_graphics"
     /\ lastOp.x = prevOp.x /\ lastOp.y = prevOp.y /\ lastOp.data = prevOp.data)
        => /\ \A p \in Pages : vram[p] = prev2Vram[p]
           /\ ~lastOp.raised /\ ~prevOp.raised

\* a bitmap drawn and undrawn in the last grid cell
Wit_C9 ==
    /\ lastOp.kind = "write_graphics" /\ prevOp.kind = "write_graphics"
    /\ lastOp.x = 15 /\ prevOp.x = 15 /\ lastOp.y = 3 /\ prevOp.y = 3
    /\ lastOp.data = prevOp.data
    /\ prevVram[6] # vram[6] /\ prevVram[7] # vram[7]
    /\ vram = prev2Vram

\* the number of characters write_text draws
Drawn(x, data) == Min(Len(data), Max(0, 16 - x))

\* C10: write_text(col, row, data) draws the first max(0, 16 - col) characters
\* of data and no more: the pages keep their length, the glyph of character j
\* lies at pixel columns x_offset + 8*(col+j) .. +7 of pages 2*row and 2*row+1,
\* and no byte changes outside pixel columns x_offset + 8*col .. x_offset + 8*16 - 1
\* of those two pages, nor from the end of the last character drawn on.
Thm_C10 ==
    lastOp.kind = "write_text" =>
        LET x == lastOp.x
            y == lastOp.y
            n == Drawn(x, lastOp.data)
            lo == x_offset + 8 * x
            hi == x_offset + 8 * (x + n)
        IN  /\ \A p \in Pages : Len(vram[p]) = Len(prevVram[p])
            /\ \A p \in Pages \ {2 * y, 2 * y + 1} : vram[p] = prevVram[p]
            /\ n > 0 => hi <= x_offset + 8 * 16
            /\ \A p \in {2 * y, 2 * y + 1} : \A k \in 0 .. (Len(prevVram[p]) - 1) :
                   (k < lo \/ k >= hi) => vram[p][k + 1] = prevVram[p][k + 1]
            /\ \A j \in 0 .. (n - 1) : \A i \in 1 .. 8 :
                   /\ vram[2 * y][lo + 8 * j + i] = font[lastOp.data[j + 1]][1][i]
                   /\ vram[2 * y + 1][lo + 8 * j + i] = font[lastOp.data[j + 1]][2][i]

\* write_text(15, 0, "AB") drew the "A" in the last cell and nothing else
Wit_C10 ==
    /\ lastOp.kind = "write_text" /\ lastOp.x = 15 /\ lastOp.y = 0
    /\ lastOp.data = <<65, 66>>
    /\ SubSeq(vram[0], 121, 128) = font[65][1]
    /\ font[65][1] # font[66][1]
    /\ vram[0] # prevVram[0]
    /\ Len(vram[0]) = 128

\* C11 (as stated): write_glyph(15, row, name) for a name registered as an icon
\* returns 0 and leaves every page unchanged.
Orig_C11 ==
    (lastOp.kind = "write_glyph" /\ lastOp.x = 15 /\ lastOp.name \in DOMAIN icons)
        => lastOp.ret = 0 /\ vram = prevVram

\* C11 (amended): write_glyph(15, row, name) never blits the icon of a registered
\* name (it does not return 2, and the second of the icon's two cells, pixel
\* columns from x_offset + 128 on, is not written: the pages keep their length);
\* it returns 0 and leaves every page unchanged when the name is not one of the
\* pseudo-glyph names, and draws the pseudo-glyph character in column 15 and
\* returns 1 when it is.
Thm_C11 ==
    (lastOp.kind = "write_glyph" /\ lastOp.x = 15 /\ lastOp.name \in DOMAIN icons)
        => /\ lastOp.ret # 2
           /\ \A p \in Pages : Len(vram[p]) = Len(prevVram[p])
           /\ lastOp.name \notin {"right_arrow", "degrees"}
                 => lastOp.ret = 0 /\ vram = prevVram
           /\ lastOp.name \in {"right_arrow", "degrees"}
                 => /\ lastOp.ret = 1
                    /\ vram = write_text(prevVram, x_offset, 15, lastOp.y,
                                         TextGlyphs[lastOp.name])

\* the registered icon "extruder" was refused in column 15
Wit_C11 ==
    /\ lastOp.kind = "write_glyph" /\ lastOp.x = 15 /\ lastOp.name = "extruder"
    /\ "extruder" \in DOMAIN icons
    /\ lastOp.ret = 0
    /\ vram = prevVram

\* C12: a call of write_text, write_graphics, write_glyph, clear or set_glyphs
\* leaves every shadow page as it was (and sends nothing, so the controller
\* memory stays too); clear leaves every current page with `columns` zero bytes
\* and changes neither the icons nor the geometry; set_glyphs changes no page.
Thm_C12 ==
    [][(lastOp'.kind \in {"write_text", "write_graphics", "write_glyph", "clear",
                          "set_glyphs"} /\ nops' = nops + 1)
          => /\ \A p \in Pages : shadow'[p] = shadow[p]
             /\ chip' = chip
             /\ sent' = <<>>
             /\ lastOp'.kind = "clear"
                   => /\ \A p \in Pages :
                          /\ Len(vram'[p]) = columns
                          /\ \A k \in 1 .. columns : vram'[p][k] = 0
                      /\ icons' = icons
                      /\ columns' = columns /\ x_offset' = x_offset
             /\ lastOp'.kind = "set_glyphs" => vram' = vram]_vars

\* clear wiped a drawing on the last page; the shadow kept its bytes
Wit_C12 ==
    /\ lastOp.kind = "clear"
    /\ prevVram[7] # vram[7]
    /\ \A p \in Pages : \A k \in 1 .. columns : vram[p][k] = 0
    /\ shadow = prevShadow /\ shadow[7] # vram[7]

\* C13: write_graphics(col, row, bitmap) raises nothing, sends nothing and
\* leaves the shadow alone; with col >= 16, row >= 4 or a bitmap not 16 bytes
\* long it changes no page byte; otherwise the only bytes it changes are the 8
\* bytes at pixel columns x_offset + 8*col .. + 7 of pages 2*row and 2*row+1,
\* where bit r of byte i is flipped exactly when pixel i (from the left) of
\* bitmap row r (page 2*row) or row r+8 (page 2*row+1) is set.
Thm_C13 ==
    lastOp.kind = "write_graphics" =>
        LET x == lastOp.x
            y == lastOp.y
            data == lastOp.data
            lo == x_offset + 8 * x
        IN  /\ ~lastOp.raised
            /\ sent = <<>>
            /\ shadow = prevShadow
            /\ (x >= 16 \/ y >= 4 \/ Len(data) # 16) => vram = prevVram
            /\ (x < 16 /\ y < 4 /\ Len(data) = 16) =>
                  /\ \A p \in Pages : Len(vram[p]) = Len(prevVram[p])
                  /\ \A p \in Pages \ {2 * y, 2 * y + 1} : vram[p] = prevVram[p]
                  /\ \A p \in {2 * y, 2 * y + 1} : \A k \in 0 .. (Len(vram[p]) - 1) :
                         (k < lo \/ k >= lo + 8) => vram[p][k + 1] = prevVram[p][k + 1]
                  /\ \A i \in 0 .. 7 :
                         /\ vram[2 * y][lo + i + 1] \in 0 .. 255
                         /\ vram[2 * y + 1][lo + i + 1] \in 0 .. 255
                         /\ \A r \in 0 .. 7 :
                              /\ Bit(vram[2 * y][lo + i + 1], r) =
                                    (Bit(prevVram[2 * y][lo + i + 1], r)
                                       + Bit(data[r + 1], 7 - i)) % 2
                              /\ Bit(vram[2 * y + 1][lo + i + 1], r) =
                                    (Bit(prevVram[2 * y + 1][lo + i + 1], r)
                                       + Bit(data[r + 9], 7 - i)) % 2

\* an ignored call in column 16, then a bitmap drawn in the last grid cell
Wit_C13 ==
    /\ lastOp.kind = "write_graphics" /\ lastOp.x = 15 /\ lastOp.y = 3
    /\ Len(lastOp.data) = 16
    /\ prevOp.kind = "write_graphics" /\ prevOp.x = 16
    /\ prevVram = prev2Vram
    /\ vram[6] # prevVram[6] /\ vram[7] # prevVram[7]
    /\ SubSeq(vram[6], 1, 120) = SubSeq(prevVram[6], 1, 120)

\* C14: write_glyph with a name that is neither a registered icon nor
\* 'right_arrow' or 'degrees' returns 0 and leaves every current and every
\* shadow page unchanged; write_glyph returns 0, 1 or 2, returns 2 only when the
\* name is a registered icon that it has blitted (16 bytes on each of the two
\* pages), and returns 1 only when the name is 'right_arrow' or 'degrees'.
Thm_C14 ==
    lastOp.kind = "write_glyph" =>
        LET x == lastOp.x
            y == lastOp.y
            name == lastOp.name
            lo == x_offset + 8 * x
        IN  /\ lastOp.ret \in {0, 1, 2}
            /\ ~lastOp.raised
            /\ shadow = prevShadow
            /\ (name \notin DOMAIN icons /\ name \notin {"right_arrow", "degrees"})
                  => lastOp.ret = 0 /\ vram = prevVram
            /\ lastOp.ret = 0 => vram = prevVram
            /\ lastOp.ret = 2
                  => /\ name \in DOMAIN icons
                     /\ x < 15
                     /\ SubSeq(vram[2 * y], lo + 1, lo + 16) = icons[name][1]
                     /\ SubSeq(vram[2 * y + 1], lo + 1, lo + 16) = icons[name][2]
            /\ lastOp.ret = 1 => name \in {"right_arrow", "degrees"}

\* an unknown name on a display that has a drawing and a registered icon
Wit_C14 ==
    /\ lastOp.kind = "write_glyph" /\ lastOp.name = "nosuch"
    /\ lastOp.ret = 0
    /\ vram = prevVram /\ shadow = prevShadow
    /\ icons # <<>>

\* the first flush of a display on which only write_text(0, 0, c) was called,
\* for a single character c
FirstTextFlush ==
    /\ FlushDone /\ nflush = 1 /\ nops = 2
    /\ prevOp.kind = "write_text" /\ prevOp.x = 0 /\ prevOp.y = 0
    /\ Len(prevOp.data) = 1

\* the first and the last python index of the non-zero bytes of a page
FirstNonZero(page) ==
    CHOOSE k \in 0 .. (Len(page) - 1) :
        page[k + 1] # 0 /\ \A j \in 0 .. (k - 1) : page[j + 1] = 0
LastNonZero(page) ==
    CHOOSE k \in 0 .. (Len(page) - 1) :
        page[k + 1] # 0 /\ \A j \in (k + 1) .. (Len(page) - 1) : page[j + 1] = 0

FullPageSpans == AsSeq([n \in 1 .. 8 |-> <<16 * (n - 1), 16>>], 8)

SentPage(k) == sent[k].bytes[1] - 176
SentCol(k) == (sent[k].bytes[2] - 16) * 16 + sent[k].bytes[3]

\* C16: the calls a flush makes to the sender alternate, command first: every
\* odd call is a 3-byte command [0xB0 | page, 0x10 | (col >> 4), col & 0x0F]
\* and the call after it is the data send of that run, the current bytes of
\* the page from col on, starting at a byte that differs from the shadow;
\* from one command to the next the page does not decrease and, within a page,
\* the column increases; a flush that returns made an even number of calls.
\* The shadow of page p is committed after the last send for p and before the
\* first send for p+1: when a send raises while page q is being sent (be it
\* the first or the last send of q), the pages before q are committed and q
\* and the pages after it are not.
Thm_C16 ==
    lastOp.kind = "flush" =>
        /\ \A k \in 1 .. Len(sent) : sent[k].is_data <=> (k % 2 = 0)
        /\ FlushDone => Len(sent) % 2 = 0 /\ shadow = vram
        /\ \A k \in 1 .. Len(sent) :
              k % 2 = 1 =>
                 /\ Len(sent[k].bytes) = 3
                 /\ SentPage(k) \in Pages
                 /\ SentCol(k) \in 0 .. (columns - 1)
                 /\ sent[k].bytes = <<176 + SentPage(k), 16 + (SentCol(k) \div 16),
                                      SentCol(k) % 16>>
                 /\ prevVram[SentPage(k)][SentCol(k) + 1]
                       # prevShadow[SentPage(k)][SentCol(k) + 1]
                 /\ k + 1 <= Len(sent) =>
                       /\ Len(sent[k + 1].bytes) >= 1
                       /\ sent[k + 1].bytes =
                             SubSeq(vram[SentPage(k)], SentCol(k) + 1,
                                    SentCol(k) + Len(sent[k + 1].bytes))
                 /\ k + 2 <= Len(sent) =>
                       \/ SentPage(k) < SentPage(k + 2)
                       \/ SentPage(k) = SentPage(k + 2) /\ SentCol(k) < SentCol(k + 2)
        /\ FlushRaised =>
              \A q \in {SentPage(Len(sent) - (IF Len(sent) % 2 = 0 THEN 1 ELSE 0))} :
                 /\ q = lastOp.fault
                 /\ \A p \in Pages : p < q => shadow[p] = vram[p]
                 /\ \A p \in Pages : p >= q => shadow[p] = prevShadow[p]
                 /\ shadow[q] # vram[q]

\* the first flush raised at the data send of the last run of page 3: pages 0
\* to 2 are committed, page 3 is not
Wit_C16 ==
    /\ FlushRaised /\ lastOp.fault = 3 /\ nflush = 1
    /\ Len(sent) = 64 /\ sent[64].is_data
    /\ SentPage(63) = 3 /\ SentCol(63) = 112 /\ SentPage(47) = 2
    /\ shadow[2] = vram[2] /\ shadow[2] # prevShadow[2]
    /\ shadow[3] = prevShadow[3] /\ shadow[3] # vram[3]

\* C17: the runs a flush sends for a page are a fixed point of the batching
\* loop: no run (start_i, len_i) and its right neighbour (start_j, len_j)
\* satisfy start_i + 5 >= start_j and len_j < 16, and the loop run on them
\* returns them unchanged.
Thm_C17 ==
    FlushDone =>
        \A p \in Pages :
            \A spans \in {SentSpans(p)} :
                /\ \A n \in 1 .. (Len(spans) - 1) :
                       ~(spans[n][1] + 5 >= spans[n + 1][1] /\ spans[n + 1][2] < 16)
                /\ Merged(spans) = spans

\* a byte, then a batched run of 16 bytes two positions on that the loop could
\* not take in, then a lone byte out of reach
Wit_C17 ==
    /\ FlushDone
    /\ DiffCols(5) = {61} \cup (63 .. 78) \cup {84}
    /\ SentSpans(5) = <<<<61, 1>>, <<63, 16>>, <<84, 1>>>>

\* C18: the runs a flush sends for a page are well formed: every run has at
\* least one byte and lies inside the page, each run ends before the next one
\* starts (so starts increase strictly and runs are disjoint), the first and
\* the last byte of every run are bytes where the page differed from its
\* shadow, and a page gets no run exactly when it did not differ.
Thm_C18 ==
    FlushDone =>
        \A p \in Pages :
            \A spans \in {SentSpans(p)} : \A dc \in {DiffCols(p)} :
                /\ (spans = <<>>) <=> (dc = {})
                /\ \A n \in 1 .. Len(spans) :
                       /\ spans[n][2] >= 1
                       /\ 0 <= spans[n][1]
                       /\ spans[n][1] + spans[n][2] <= columns
                       /\ spans[n][1] \in dc
                       /\ (spans[n][1] + spans[n][2] - 1) \in dc
                /\ \A n \in 1 .. (Len(spans) - 1) :
                       /\ spans[n][1] < spans[n + 1][1]
                       /\ spans[n][1] + spans[n][2] <= spans[n + 1][1]

\* a batched run that ends with the last byte of the page, after a lone byte
Wit_C18 ==
    /\ FlushDone
    /\ DiffCols(4) = {100} \cup (106 .. 121) \cup {127}
    /\ SentSpans(4) = <<<<100, 1>>, <<106, 16>>, <<127, 1>>>>

\* C20: whatever the current page and its shadow, every run the batching loop
\* leaves for a flush to send has between 1 and 20 bytes (a merge adds a gap
\* of at most 5 to a right-hand run of at most 15), the data sends made carry
\* just those run lengths, and a run of 20 bytes does occur.
Thm_C20 ==
    lastOp.kind = "flush" =>
        \A p \in Pages :
            \A runs \in {PageRuns(prevVram[p], prevShadow[p])} :
                /\ \A n \in 1 .. Len(runs) : runs[n][2] \in 1 .. 20
                /\ IsPrefix(SentSpans(p), runs)

\* the byte at 100 was batched with the 15 bytes from 105 on into a run of 20
Wit_C20 ==
    /\ FlushDone
    /\ DiffCols(4) = {100} \cup (105 .. 119)
    /\ PageRuns(prevVram[4], prevShadow[4]) = <<<<100, 20>>>>
    /\ Len(sent) = 2 /\ Len(sent[2].bytes) = 20

\* C19: on a display of 128 columns with x_offset 0, or of 132 columns with
\* x_offset 0 to 3, after any sequence of calls every current page and every
\* shadow page has exactly `columns` bytes, and no drawing call has raised for
\* an access outside a page.
Thm_C19 ==
    /\ <<columns, x_offset>> \in Geometries
    /\ \A p \in Pages : Len(vram[p]) = columns /\ Len(shadow[p]) = columns
    /\ lastOp.kind # "flush" => ~lastOp.raised

\* on the 132-column display with x_offset 3, an icon blitted in columns 14
\* and 15 ends with the next to last byte of the page
Wit_C19 ==
    /\ columns = 132 /\ x_offset = 3
    /\ lastOp.kind = "write_glyph" /\ lastOp.x = 14 /\ lastOp.ret = 2
    /\ vram[6] # prevVram[6]
    /\ SubSeq(vram[6], 116, 131) = icons[lastOp.name][1]
    /\ Len(vram[6]) = 132 /\ Len(vram[7]) = 132

====
